---- MODULE Spec2Model ----
(***************************************************************************)
(* json-linter_go: the lexer (internal/lexer) as a state machine.          *)
(*                                                                         *)
(* A Lexer owns a bufio.Reader over the input text and a LexerPosition.    *)
(* A step of the model is one call of Lexer.GetNextToken, or the one call  *)
(* of Lex that main makes.  Runes are one-character strings, texts and     *)
(* lexemes are sequences of runes.                                         *)
(***************************************************************************)
EXTENDS Integers, Sequences, FiniteSets, TLC

VARIABLES
    input,      \* the text behind the reader (never changes)
    ioErrAt,    \* 0, or k: the underlying reader fails after k-1 runes (an
                \* in-memory text, as in TestGetNextToken, never fails: 0)
    lxr,        \* the Lexer: [Reader |-> [r, lastRuneSize], Pos |-> [Line, Column],
                \* Backups |-> its backupReader calls so far]
    token,      \* the Token returned by the last GetNextToken call (NoToken before)
    tokens,     \* every Token returned so far, in order
    scans,      \* per call: [from, start, to, panic, pos], the reader cursor before
                \* the call, before the rune that began the token, and after the
                \* call, and the lexer's Pos before the call
    aborted,    \* TRUE once a call has panicked (the run is over)
    lexed,      \* what Lex(filePath) gave main (NotLexed before the call)
    peeked      \* the peekForward call made, if any: [steps, before, after, r, err],
                \* the lexer before and after it and what it returned (steps = 0:
                \* none yet)

vars == <<input, ioErrAt, lxr, token, tokens, scans, aborted, lexed, peeked>>

-----------------------------------------------------------------------------
(* Bounds of the model *)

MaxLen == 3        \* longest input of Spec (full alphabet)
MaxStrLen == 5     \* longest input of SpecStr (string alphabet)
MaxNumLen == 4     \* longest input of SpecNum (number alphabet), the examples apart
MaxIdentLen == 4   \* longest input of SpecIdent (letter alphabet), the examples apart
MaxFaultLen == 3   \* longest input of SpecFault (failing reader)
MaxFileLen == 4    \* longest file of SpecLex
MaxPeekLen == 3    \* longest input of SpecPeek
MaxSteps == 3      \* largest number of steps given to peekForward
ExtraCalls == 2    \* GetNextToken calls allowed beyond one per input rune

-----------------------------------------------------------------------------
(* Runes and their classes *)

QUOTE == "\""
BSLASH == "\\"
LF == "\n"
CR == "\r"
TAB == "\t"
SP == " "

Digit == {"0", "1", "2", "3", "4", "5", "6", "7", "8", "9"}

Letter == {"a", "b", "c", "d", "e", "f", "g", "h", "i", "j", "k", "l", "m",
           "n", "o", "p", "q", "r", "s", "t", "u", "v", "w", "x", "y", "z",
           "A", "B", "C", "D", "E", "F", "G", "H", "I", "J", "K", "L", "M",
           "N", "O", "P", "Q", "R", "S", "T", "U", "V", "W", "X", "Y", "Z"}

\* unicode.IsLetter, on the runes of the model
IsLetter(r) == r \in Letter

\* unicode.IsSpace, on the runes of the model
IsSpace(r) == r \in {SP, TAB, LF, CR, "\f"}

\* the alphabets the inputs are drawn from
Alphabet == {"{", "}", "[", "]", ",", ":", QUOTE, BSLASH, "a", "0", "1", "-",
             "+", SP, TAB, LF, CR, "#"}
StrAlphabet == {QUOTE, BSLASH, "a", LF, ","}
NumAlphabet == {"0", "1", "-", ".", "e", "+", SP}
IdentAlphabet == {"t", "r", "u", "e", "n", "l", "E", "1", SP}
FaultAlphabet == {"{", QUOTE, "a", "1", SP, LF}
FileAlphabet == {"[", "]", ",", "0", "1", QUOTE, "a", SP}
PeekAlphabet == {"[", "1", "a", QUOTE, SP, LF}

SeqsUpTo(S, n) == UNION {[1..k -> S] : k \in 0..n}

\* number texts of TestGetNextToken, and their like with a 0 or a + in them
NumberExamples ==
    {<<"1", "2", "3">>, <<"-", "1", ".", "2", "3">>,
     <<"1", ".", "2", "3", "e", "1", "0">>, <<"1", ".", "2", "3", "e", "-", "1", "0">>,
     <<"-", "1", ".", "2", "3", "E", "-", "1", "0">>,
     <<"e", "1", "0">>, <<"E", "-", "1", "0">>,
     <<"-", "1", ".", "2", ".", "3">>, <<"-", "-", "1", ".", "2", ".", "3">>,
     <<"1", "e", "+", "1", "0">>, <<"1", "0", ".", "5", SP, "2", "0">>,
     <<"1", "2", "3", SP, "1", ".", "2", "3", SP, "-", "1", ".", "2", "3">>}

-----------------------------------------------------------------------------
(* Token model *)

TokenType == {"ILLEGAL", "EOF", "LBRACE", "RBRACE", "LBRACKET", "RBRACKET",
              "COMMA", "COLON", "STR", "NUM", "TRUE", "FALSE", "NULL"}

LexerPosition(line, column) == [Line |-> line, Column |-> column]

TokenPosition(line, colStart, colEnd) ==
    [Line |-> line, ColStart |-> colStart, ColEnd |-> colEnd]

Token(tokType, lexeme, tokPos) ==
    [TokType |-> tokType, Lexeme |-> lexeme, TokPos |-> tokPos]

NoToken == Token("NONE", <<>>, TokenPosition(0, 0, 0))

\* createToken(tokType, pos, lexemeChars...)
createToken(tokType, pos, lexemeChars) ==
    LET visualWidth == Len(lexemeChars)
        colEnd == pos.Column + visualWidth - 1
    IN  IF tokType = "EOF"
        THEN Token("EOF", <<"E", "O", "F">>,
                   TokenPosition(pos.Line, pos.Column, pos.Column))
        ELSE Token(tokType, lexemeChars,
                   TokenPosition(pos.Line, pos.Column, colEnd))

-----------------------------------------------------------------------------
(* bufio.Reader over the input: r runes consumed, lastRuneSize as in bufio *)
(* (every rune of the model is one byte wide)                              *)

Reader(r, lastRuneSize) == [r |-> r, lastRuneSize |-> lastRuneSize]

\* bufio.Reader.ReadRune: [r |-> rune, err |-> "nil" | "EOF" | "IO", rd |-> reader]
ReadRune(rd) ==
    IF ioErrAt = rd.r + 1
    THEN [r |-> "", err |-> "IO", rd |-> Reader(rd.r, -1)]
    ELSE IF rd.r = Len(input)
    THEN [r |-> "", err |-> "EOF", rd |-> Reader(rd.r, -1)]
    ELSE [r |-> input[rd.r + 1], err |-> "nil", rd |-> Reader(rd.r + 1, 1)]

\* bufio.Reader.UnreadRune: fails unless the last operation was a ReadRune
\* that returned a rune
UnreadRune(rd) ==
    IF rd.lastRuneSize < 0 \/ rd.r < rd.lastRuneSize
    THEN [err |-> "ErrInvalidUnreadRune", rd |-> rd]
    ELSE [err |-> "nil", rd |-> Reader(rd.r - rd.lastRuneSize, -1)]

-----------------------------------------------------------------------------
(* Cursor primitives of the Lexer *)

\* Backups is not a field of the Go struct: it lists the backupReader calls
\* made on the lexer, each with the reader and Pos before and after it
Lexer(reader, pos) == [Reader |-> reader, Pos |-> pos, Backups |-> <<>>]

\* the lexer l with its reader and Pos assigned
Moved(l, reader, pos) == [l EXCEPT !.Reader = reader, !.Pos = pos]

\* CreateLexer
CreateLexer == Lexer(Reader(0, -1), LexerPosition(1, 0))

\* a resetPosition that restarts the column at 1 instead of 0
resetPositionAtOne(l) == Moved(l, l.Reader, LexerPosition(l.Pos.Line + 1, 1))

\* Lexer.resetPosition
resetPosition(l) == Moved(l, l.Reader, LexerPosition(l.Pos.Line + 1, 0))

\* an advanceReader that counts a column also for a read that failed
advanceReaderAlwaysCounts(l) ==
    LET result(rr) ==
            [r |-> rr.r, err |-> rr.err,
             l |-> Moved(l, rr.rd, LexerPosition(l.Pos.Line, l.Pos.Column + 1))]
    IN  result(ReadRune(l.Reader))

\* an advanceReader that reads without counting the column
advanceReaderKeepsColumn(l) ==
    LET result(rr) ==
            IF rr.err # "nil"
            THEN [r |-> "", err |-> rr.err, l |-> Moved(l, rr.rd, l.Pos)]
            ELSE [r |-> rr.r, err |-> "nil", l |-> Moved(l, rr.rd, l.Pos)]
    IN  result(ReadRune(l.Reader))

\* Lexer.advanceReader: [r, err, l]
advanceReader(l) ==
    LET result(rr) ==
            IF rr.err # "nil"
            THEN [r |-> "", err |-> rr.err, l |-> Moved(l, rr.rd, l.Pos)]
            ELSE [r |-> rr.r, err |-> "nil",
                  l |-> Moved(l, rr.rd, LexerPosition(l.Pos.Line, l.Pos.Column + 1))]
    IN  result(ReadRune(l.Reader))

\* a backupReader that steps the column back but leaves the rune read
backupReaderColumnOnly(l) ==
    IF l.Pos.Column > 0
    THEN [panic |-> FALSE,
          l |-> Moved(l, l.Reader, LexerPosition(l.Pos.Line, l.Pos.Column - 1))]
    ELSE [panic |-> FALSE, l |-> l]

\* Lexer.backupReader: [panic, l]
backupReader(l) ==
    LET result(ur) ==
            IF ur.err # "nil"
            THEN [panic |-> TRUE, l |-> l]
            ELSE [panic |-> FALSE,
                  l |-> Moved(l, ur.rd, LexerPosition(l.Pos.Line, l.Pos.Column - 1))]
        note(res) ==
            [panic |-> res.panic,
             l |-> [res.l EXCEPT !.Backups =
                        Append(@, [before |-> [Reader |-> l.Reader, Pos |-> l.Pos],
                                   after |-> [Reader |-> res.l.Reader, Pos |-> res.l.Pos],
                                   panic |-> res.panic])]]
    IN  IF l.Pos.Column > 0
        THEN note(result(UnreadRune(l.Reader)))
        ELSE note([panic |-> FALSE, l |-> l])

-----------------------------------------------------------------------------
(* Numbers *)

\* isNumberMaybe
isNumberMaybe(r) == r \in Digit \/ r = "-" \/ r = "." \/ r = "e" \/ r = "E"

\* One step of the matcher of ^-?(?:0|[1-9]\d*)(?:\.\d+)?(?:[eE][+-]?\d+)?$
\* q: "start", "minus", "zero", "int", "dot", "frac", "e", "esign", "exp", "fail"
NumberStep(q, r) ==
    CASE q = "start" /\ r = "-" -> "minus"
      [] q \in {"start", "minus"} /\ r = "0" -> "zero"
      [] q \in {"start", "minus"} /\ r \in Digit \ {"0"} -> "int"
      [] q = "int" /\ r \in Digit -> "int"
      [] q \in {"zero", "int"} /\ r = "." -> "dot"
      [] q \in {"dot", "frac"} /\ r \in Digit -> "frac"
      [] q \in {"zero", "int", "frac"} /\ r \in {"e", "E"} -> "e"
      [] q = "e" /\ r \in {"+", "-"} -> "esign"
      [] q \in {"e", "esign", "exp"} /\ r \in Digit -> "exp"
      [] OTHER -> "fail"

RECURSIVE NumberRun(_, _, _)
NumberRun(q, runes, i) ==
    IF i > Len(runes) THEN q ELSE NumberRun(NumberStep(q, runes[i]), runes, i + 1)

\* isValidJSONNumber
isValidJSONNumber(runes) ==
    NumberRun("start", runes, 1) \in {"zero", "int", "frac", "exp"}

\* the for loop of Lexer.readNumber: [num, err, l, panic]
RECURSIVE readNumberLoop(_, _)
readNumberLoop(l, num) ==
    LET backedUp(b) == [num |-> num, err |-> "nil", l |-> b.l, panic |-> b.panic]
        body(a) ==
            IF a.err = "EOF"
            THEN [num |-> num, err |-> "nil", l |-> a.l, panic |-> FALSE]
            ELSE IF a.err # "nil"
            THEN [num |-> <<>>, err |-> a.err, l |-> a.l, panic |-> FALSE]
            ELSE IF IsSpace(a.r) \/ ~isNumberMaybe(a.r)
            THEN backedUp(backupReader(a.l))
            ELSE readNumberLoop(a.l, Append(num, a.r))
    IN  body(advanceReader(l))

\* Lexer.readNumber: [num, startPos, err, l, panic]
readNumber(l) ==
    LET startPos == LexerPosition(l.Pos.Line, l.Pos.Column + 1)
        result(rn) ==
            [num |-> rn.num, startPos |-> startPos, l |-> rn.l, panic |-> rn.panic,
             err |-> IF rn.panic \/ rn.err # "nil" THEN rn.err
                     ELSE IF ~isValidJSONNumber(rn.num) THEN "invalid JSON number"
                     ELSE "nil"]
    IN  result(readNumberLoop(l, <<>>))

\* The result of a call: a token and the lexer after it, or a panic
Returned(tok, l, start) == [panic |-> FALSE, tok |-> tok, l |-> l, start |-> start]
Panicked(l, start) == [panic |-> TRUE, tok |-> NoToken, l |-> l, start |-> start]

\* handleNumberToken(lxr, r); start: the reader cursor before r
handleNumberToken(l, r, start) ==
    LET result(rn) ==
            IF rn.panic THEN Panicked(rn.l, start)
            ELSE IF rn.err # "nil"
            THEN IF rn.err = "invalid JSON number"
                 THEN Returned(createToken("ILLEGAL", rn.startPos, rn.num), rn.l, start)
                 ELSE Returned(createToken("ILLEGAL", rn.startPos, <<r>>), rn.l, start)
            ELSE Returned(createToken("NUM", rn.startPos, rn.num), rn.l, start)
        read(b) == IF b.panic THEN Panicked(b.l, start) ELSE result(readNumber(b.l))
    IN  read(backupReader(l))

-----------------------------------------------------------------------------
(* Strings *)

\* the for loop of Lexer.readString: [str, err, l, panic]; the panic is the
\* index out of range of str[len(str)-1] on an empty str
RECURSIVE readStringLoop(_, _)
readStringLoop(l, str) ==
    LET body(a) ==
            IF a.err = "EOF"
            THEN [str |-> str, err |-> "nil", l |-> a.l, panic |-> FALSE]
            ELSE IF a.err # "nil"
            THEN [str |-> <<>>, err |-> a.err, l |-> a.l, panic |-> FALSE]
            ELSE IF a.r = QUOTE /\ Len(str) = 0
            THEN [str |-> str, err |-> "nil", l |-> a.l, panic |-> TRUE]
            ELSE IF a.r = QUOTE /\ str[Len(str)] # BSLASH
            THEN [str |-> str, err |-> "nil", l |-> a.l, panic |-> FALSE]
            ELSE readStringLoop(a.l, Append(str, a.r))
    IN  body(advanceReader(l))

\* Lexer.readString: [str, startPos, err, l, panic]
readString(l) ==
    LET result(rs) ==
            [str |-> rs.str, startPos |-> LexerPosition(l.Pos.Line, l.Pos.Column + 1),
             err |-> rs.err, l |-> rs.l, panic |-> rs.panic]
    IN  result(readStringLoop(l, <<>>))

\* handleStringToken(lxr, r)
handleStringToken(l, r, start) ==
    LET result(rs) ==
            IF rs.panic THEN Panicked(rs.l, start)
            ELSE IF rs.err # "nil" \/ Len(rs.str) = 0
            THEN Returned(createToken("ILLEGAL", rs.startPos, <<r>>), rs.l, start)
            ELSE Returned(createToken("STR", rs.startPos, rs.str), rs.l, start)
    IN  result(readString(l))

-----------------------------------------------------------------------------
(* Identifiers *)

\* the for loop of Lexer.readIdentifier: [ident, err, l, panic]
RECURSIVE readIdentifierLoop(_, _)
readIdentifierLoop(l, ident) ==
    LET backedUp(b) == [ident |-> ident, err |-> "nil", l |-> b.l, panic |-> b.panic]
        body(a) ==
            IF a.err = "EOF"
            THEN [ident |-> ident, err |-> "nil", l |-> a.l, panic |-> FALSE]
            ELSE IF a.err # "nil"
            THEN [ident |-> <<>>, err |-> a.err, l |-> a.l, panic |-> FALSE]
            ELSE IF IsSpace(a.r) \/ ~IsLetter(a.r)
            THEN backedUp(backupReader(a.l))
            ELSE readIdentifierLoop(a.l, Append(ident, a.r))
    IN  body(advanceReader(l))

\* Lexer.readIdentifier: [ident, startPos, err, l, panic]
readIdentifier(l) ==
    LET result(ri) ==
            [ident |-> ri.ident, startPos |-> LexerPosition(l.Pos.Line, l.Pos.Column + 1),
             err |-> ri.err, l |-> ri.l, panic |-> ri.panic]
    IN  result(readIdentifierLoop(l, <<>>))

\* handleIdentifierToken(lxr, r)
handleIdentifierToken(l, r, start) ==
    LET tokType(ident) ==
            IF ident = <<"t", "r", "u", "e">> THEN "TRUE"
            ELSE IF ident = <<"f", "a", "l", "s", "e">> THEN "FALSE"
            ELSE IF ident = <<"n", "u", "l", "l">> THEN "NULL"
            ELSE "ILLEGAL"
        result(ri) ==
            IF ri.panic THEN Panicked(ri.l, start)
            ELSE IF ri.err # "nil"
            THEN Returned(createToken("ILLEGAL", ri.startPos, <<r>>), ri.l, start)
            ELSE Returned(createToken(tokType(ri.ident), ri.startPos, ri.ident),
                          ri.l, start)
        read(b) == IF b.panic THEN Panicked(b.l, start) ELSE result(readIdentifier(b.l))
    IN  read(backupReader(l))

-----------------------------------------------------------------------------
(* Lexer.GetNextToken *)

\* the single-rune tokens of the switch
Structural(r) ==
    CASE r = "{" -> "LBRACE"
      [] r = "}" -> "RBRACE"
      [] r = "[" -> "LBRACKET"
      [] r = "]" -> "RBRACKET"
      [] r = "," -> "COMMA"
      [] r = ":" -> "COLON"
      [] OTHER -> "NONE"

\* the for loop of GetNextToken, from lexer state l (' ', '\t' and '\n' all
\* go round the loop, '\n' after resetPosition)
RECURSIVE Scan(_)
Scan(l) ==
    LET start == l.Reader.r
        body(a) ==
            IF a.err = "EOF"
            THEN Returned(createToken("EOF", a.l.Pos, <<"0">>), a.l, start)
            ELSE IF a.err # "nil" THEN Panicked(a.l, start)
            ELSE IF a.r = SP \/ a.r = TAB \/ a.r = LF
            THEN Scan(IF a.r = LF THEN resetPosition(a.l) ELSE a.l)
            ELSE IF a.r = "0"
            THEN Returned(createToken("EOF", a.l.Pos, <<a.r>>), a.l, start)
            ELSE IF Structural(a.r) # "NONE"
            THEN Returned(createToken(Structural(a.r), a.l.Pos, <<a.r>>), a.l, start)
            ELSE IF a.r = QUOTE THEN handleStringToken(a.l, a.r, start)
            ELSE IF isNumberMaybe(a.r) THEN handleNumberToken(a.l, a.r, start)
            ELSE IF IsLetter(a.r) THEN handleIdentifierToken(a.l, a.r, start)
            ELSE Returned(createToken("ILLEGAL", a.l.Pos, <<a.r>>), a.l, start)
    IN  body(advanceReader(l))

\* one call of GetNextToken by the lexer's client
GetNextToken ==
    /\ ~aborted
    /\ Len(tokens) < Len(input) + ExtraCalls
    /\ LET return(res) ==
               /\ lxr' = res.l
               /\ aborted' = res.panic
               /\ token' = res.tok
               /\ tokens' = IF res.panic THEN tokens ELSE Append(tokens, res.tok)
               /\ scans' = Append(scans, [from |-> lxr.Reader.r,
                                          start |-> res.start,
                                          to |-> res.l.Reader.r,
                                          panic |-> res.panic,
                                          pos |-> lxr.Pos])
       IN  return(Scan(lxr))
    /\ UNCHANGED <<input, ioErrAt, lexed, peeked>>

\* the loop of Lex: GetNextToken until the first token of type EOF, which is
\* not appended
RECURSIVE LexLoop(_, _)

\* a loop that appends the EOF token too before it stops
LexLoopKeepsEOF(l, toks) ==
    LET step(res) ==
            IF res.panic
            THEN [called |-> TRUE, opened |-> TRUE, panic |-> TRUE, tokens |-> toks]
            ELSE IF res.tok.TokType = "EOF"
            THEN [called |-> TRUE, opened |-> TRUE, panic |-> FALSE,
                  tokens |-> Append(toks, res.tok)]
            ELSE LexLoop(res.l, Append(toks, res.tok))
    IN  step(Scan(l))

LexLoop(l, toks) ==
    LET step(res) ==
            IF res.panic THEN [called |-> TRUE, opened |-> TRUE, panic |-> TRUE, tokens |-> toks]
            ELSE IF res.tok.TokType = "EOF"
            THEN [called |-> TRUE, opened |-> TRUE, panic |-> FALSE, tokens |-> toks]
            ELSE LexLoop(res.l, Append(toks, res.tok))
    IN  step(Scan(l))

NotLexed == [called |-> FALSE, opened |-> FALSE, panic |-> FALSE, tokens |-> <<>>]

\* Lex(filePath), called once by main: a file that does not open gives the
\* empty slice, an opened one is read by a lexer of its own
Lex ==
    /\ ~lexed.called
    /\ \E opens \in BOOLEAN :
           lexed' = IF opens THEN LexLoop(CreateLexer, <<>>)
                    ELSE [called |-> TRUE, opened |-> FALSE, panic |-> FALSE,
                          tokens |-> <<>>]
    /\ UNCHANGED <<input, ioErrAt, lxr, token, tokens, scans, aborted, peeked>>

\* the first loop of peekForward: numSteps runes are read from the reader
\* itself, Pos is not touched: [r, err, rd]
RECURSIVE peekRead(_, _, _)
peekRead(rd, numSteps, runePeeked) ==
    LET body(rr) ==
            IF rr.err # "nil" THEN [r |-> "", err |-> rr.err, rd |-> rr.rd]
            ELSE peekRead(rr.rd, numSteps - 1, rr.r)
    IN  IF numSteps = 0 THEN [r |-> runePeeked, err |-> "nil", rd |-> rd]
        ELSE body(ReadRune(rd))

\* the second loop of peekForward: numSteps times UnreadRune: [err, rd]
RECURSIVE peekUnread(_, _)
peekUnread(rd, numSteps) ==
    LET body(ur) ==
            IF ur.err # "nil" THEN [err |-> ur.err, rd |-> ur.rd]
            ELSE peekUnread(ur.rd, numSteps - 1)
    IN  IF numSteps = 0 THEN [err |-> "nil", rd |-> rd]
        ELSE body(UnreadRune(rd))

\* Lexer.peekForward(numSteps): [r, err, l]; on an error Pos is set back to
\* what it was on entry, the reader is left where the error found it
peekForward(l, numSteps) ==
    LET back(pr, pu) ==
            IF pu.err # "nil" THEN [r |-> "", err |-> pu.err, l |-> Moved(l, pu.rd, l.Pos)]
            ELSE [r |-> pr.r, err |-> "nil", l |-> Moved(l, pu.rd, l.Pos)]
        forth(pr) ==
            IF pr.err # "nil" THEN [r |-> "", err |-> pr.err, l |-> Moved(l, pr.rd, l.Pos)]
            ELSE back(pr, peekUnread(pr.rd, numSteps))
    IN  forth(peekRead(l.Reader, numSteps, ""))

NotPeeked ==
    [steps |-> 0, before |-> CreateLexer, after |-> CreateLexer, r |-> "", err |-> "nil"]

\* one call of peekForward, between two calls of GetNextToken
PeekForward ==
    /\ ~aborted
    /\ peeked.steps = 0
    /\ \E numSteps \in 1..MaxSteps :
           LET return(res) ==
                   /\ lxr' = res.l
                   /\ peeked' = [steps |-> numSteps, before |-> lxr, after |-> res.l,
                                 r |-> res.r, err |-> res.err]
           IN  return(peekForward(lxr, numSteps))
    /\ UNCHANGED <<input, ioErrAt, token, tokens, scans, aborted, lexed>>

-----------------------------------------------------------------------------
(* Specifications: a lexer created over a text of the alphabet *)

Created ==
    /\ lxr = CreateLexer
    /\ token = NoToken
    /\ tokens = <<>>
    /\ scans = <<>>
    /\ aborted = FALSE
    /\ lexed = NotLexed
    /\ peeked = NotPeeked

InitOver(texts) ==
    /\ input \in texts
    /\ ioErrAt = 0
    /\ Created

\* literals and near-literals of TestGetNextToken
IdentExamples ==
    {<<"f", "a", "l", "s", "e">>, <<"T", "r", "u", "e">>,
     <<"n", "u", "l", "l", "l">>, <<"i", "n", "v", "a", "l", "i", "d">>,
     <<"t", "r", "u", "e", SP, "f", "a", "l", "s", "e", SP, "n", "u", "l", "l">>}

Init == InitOver(SeqsUpTo(Alphabet, MaxLen))
InitStr == InitOver(SeqsUpTo(StrAlphabet, MaxStrLen))
InitNum == InitOver(SeqsUpTo(NumAlphabet, MaxNumLen) \cup NumberExamples)
InitIdent == InitOver(SeqsUpTo(IdentAlphabet, MaxIdentLen) \cup IdentExamples)
InitLex == InitOver(SeqsUpTo(FileAlphabet, MaxFileLen))
InitPeek == InitOver(SeqsUpTo(PeekAlphabet, MaxPeekLen))

\* a reader that fails with an error other than io.EOF after ioErrAt-1 runes
InitFault ==
    /\ input \in SeqsUpTo(FaultAlphabet, MaxFaultLen)
    /\ ioErrAt \in 1..(Len(input) + 1)
    /\ Created

Next == GetNextToken
NextLex == GetNextToken \/ Lex
NextPeek == GetNextToken \/ PeekForward

Spec == Init /\ [][Next]_vars
SpecStr == InitStr /\ [][Next]_vars
SpecNum == InitNum /\ [][Next]_vars
SpecIdent == InitIdent /\ [][Next]_vars
SpecFault == InitFault /\ [][Next]_vars
SpecLex == InitLex /\ [][NextLex]_vars
SpecPeek == InitPeek /\ [][NextPeek]_vars

-----------------------------------------------------------------------------
(* What the text is, independently of the lexer: columns, strings, numbers  *)
(* and the RFC 8259 grammar.  The properties compare the tokens with these. *)

Max(S) == CHOOSE x \in S : \A y \in S : y <= x
Min(S) == CHOOSE x \in S : \A y \in S : x <= y

\* the 1-indexed column of rune i of the text on its line
ColumnOf(i) == i - Max({0} \cup {j \in 1..(i - 1) : input[j] = LF})

\* the number of backslashes immediately before rune j, after the quote at q
BackslashesBefore(q, j) ==
    LET first == Min({i \in (q + 1)..j : \A m \in i..(j - 1) : input[m] = BSLASH})
    IN  j - first

\* the quote that closes the string opened by the quote at q (backslash
\* parity), or 0 when the text ends first
ClosingQuote(q) ==
    LET cs == {j \in (q + 1)..Len(input) :
                  input[j] = QUOTE /\ BackslashesBefore(q, j) % 2 = 0}
    IN  IF cs = {} THEN 0 ELSE Min(cs)

\* the runes of the text that lie outside every string literal, scanning on
\* from rune i, which is outside
RECURSIVE OutsideFrom(_)
OutsideFrom(i) ==
    IF i > Len(input) THEN {}
    ELSE IF input[i] # QUOTE THEN {i} \cup OutsideFrom(i + 1)
    ELSE IF ClosingQuote(i) = 0 THEN {}
    ELSE OutsideFrom(ClosingQuote(i) + 1)

OutsideString == OutsideFrom(1)

\* the characters a number run is made of
NumberChars == Digit \cup {"-", ".", "e", "E", "+"}

\* the last rune of the maximal run of number characters that begins at rune p
RunEnd(p) ==
    Max({j \in p..Len(input) : \A m \in p..j : input[m] \in NumberChars})

\* rune p begins a maximal run of number characters
BeginsRun(p) ==
    /\ p \in 1..Len(input)
    /\ input[p] \in NumberChars
    /\ p = 1 \/ input[p - 1] \notin NumberChars

IsDigits(s) == Len(s) >= 1 /\ \A i \in 1..Len(s) : s[i] \in Digit

\* the strict JSON number grammar: [-] int [frac] [exp]
IntPart(s) == s = <<"0">> \/ (IsDigits(s) /\ s[1] # "0")
FracPart(s) == s = <<>> \/ (Len(s) >= 2 /\ s[1] = "." /\ IsDigits(Tail(s)))
ExpPart(s) ==
    \/ s = <<>>
    \/ /\ Len(s) >= 2
       /\ s[1] \in {"e", "E"}
       /\ \/ IsDigits(Tail(s))
          \/ (Len(s) >= 3 /\ s[2] \in {"+", "-"} /\ IsDigits(Tail(Tail(s))))

JSONNumber(s) ==
    \E a \in 0..1 : \E b \in a..Len(s) : \E c \in b..Len(s) :
        /\ a = 1 => (Len(s) >= 1 /\ s[1] = "-")
        /\ IntPart(SubSeq(s, a + 1, b))
        /\ FracPart(SubSeq(s, b + 1, c))
        /\ ExpPart(SubSeq(s, c + 1, Len(s)))

\* RFC 8259 string content: unescaped runes and the escapes of the table
\* (no \uXXXX occurs over the alphabets of the model)
RECURSIVE StringChars(_, _)
StringChars(s, i) ==
    IF i > Len(s) THEN TRUE
    ELSE IF s[i] = BSLASH
    THEN /\ i + 1 <= Len(s)
         /\ s[i + 1] \in {QUOTE, BSLASH, "/", "b", "f", "n", "r", "t"}
         /\ StringChars(s, i + 2)
    ELSE s[i] \notin {QUOTE, LF, CR, TAB} /\ StringChars(s, i + 1)

JSONWs == {SP, TAB, LF, CR}

\* the cursor after the whitespace that follows cursor i
RECURSIVE SkipWs(_, _)
SkipWs(s, i) == IF i < Len(s) /\ s[i + 1] \in JSONWs THEN SkipWs(s, i + 1) ELSE i

At(s, i, r) == i < Len(s) /\ s[i + 1] = r

\* the cursors at which a JSON value that begins after cursor i can end
RECURSIVE ValueEnds(_, _), ElementsEnds(_, _), MembersEnds(_, _)
StringEnds(s, i) ==
    IF At(s, i, QUOTE)
    THEN {j \in (i + 2)..Len(s) : s[j] = QUOTE /\ StringChars(SubSeq(s, i + 2, j - 1), 1)}
    ELSE {}

LiteralEnds(s, i) ==
    {j \in (i + 1)..Len(s) :
        SubSeq(s, i + 1, j) \in {<<"t", "r", "u", "e">>, <<"f", "a", "l", "s", "e">>,
                                 <<"n", "u", "l", "l">>}}

NumberEnds(s, i) == {j \in (i + 1)..Len(s) : JSONNumber(SubSeq(s, i + 1, j))}

ValueEnds(s, i) ==
    StringEnds(s, i) \cup LiteralEnds(s, i) \cup NumberEnds(s, i)
    \cup (IF At(s, i, "[")
          THEN (IF At(s, SkipWs(s, i + 1), "]") THEN {SkipWs(s, i + 1) + 1} ELSE {})
               \cup ElementsEnds(s, SkipWs(s, i + 1))
          ELSE {})
    \cup (IF At(s, i, "{")
          THEN (IF At(s, SkipWs(s, i + 1), "}") THEN {SkipWs(s, i + 1) + 1} ELSE {})
               \cup MembersEnds(s, SkipWs(s, i + 1))
          ELSE {})

\* after cursor i: value *( ws , ws value ) ws ]
ElementsEnds(s, i) ==
    UNION {LET m == SkipWs(s, j)
           IN  IF At(s, m, "]") THEN {m + 1}
               ELSE IF At(s, m, ",") THEN ElementsEnds(s, SkipWs(s, m + 1))
               ELSE {} : j \in ValueEnds(s, i)}

\* after cursor i: string ws : ws value *( ws , ws member ) ws }
MembersEnds(s, i) ==
    UNION {LET c == SkipWs(s, k)
           IN  IF At(s, c, ":")
               THEN UNION {LET m == SkipWs(s, j)
                           IN  IF At(s, m, "}") THEN {m + 1}
                               ELSE IF At(s, m, ",")
                               THEN MembersEnds(s, SkipWs(s, m + 1))
                               ELSE {} : j \in ValueEnds(s, SkipWs(s, c + 1))}
               ELSE {} : k \in StringEnds(s, i)}

\* JSON-text = ws value ws
IsJSONText(s) == \E j \in ValueEnds(s, SkipWs(s, 0)) : SkipWs(s, j) = Len(s)

-----------------------------------------------------------------------------
(* Properties *)

Calls == 1..Len(scans)
Returns == 1..Len(tokens)

\* the rune that began the token of call k (0 when the text was exhausted)
FirstRune(k) == IF scans[k].start < Len(input) THEN scans[k].start + 1 ELSE 0

\* C1: every GetNextToken call returns a Token and never panics, whatever the
\* input text (malformed input is an ILLEGAL token, never an abort).
NeverPanics == ~aborted

\* C2: on a text that conforms to the RFC 8259 grammar, no returned token is
\* ILLEGAL.
NoIllegalOnJSON ==
    IsJSONText(input) => \A k \in Returns : tokens[k].TokType # "ILLEGAL"

\* C3: an EOF token is returned only when every rune of the input has been
\* consumed.
EOFOnlyAtEnd ==
    \A k \in Returns : tokens[k].TokType = "EOF" => scans[k].to = Len(input)

\* C4: a call whose token begins a maximal run of number characters that
\* matches the strict number grammar returns one NUM token whose lexeme is the
\* whole run, from the column of its first rune to the column of its last.
ValidRunIsNUM ==
    \A k \in Calls :
        LET p == FirstRune(k)
            run == SubSeq(input, p, RunEnd(p))
        IN  (BeginsRun(p) /\ JSONNumber(run)) =>
                /\ ~scans[k].panic
                /\ tokens[k].TokType = "NUM"
                /\ tokens[k].Lexeme = run
                /\ tokens[k].TokPos.ColStart = ColumnOf(p)
                /\ tokens[k].TokPos.ColEnd = ColumnOf(RunEnd(p))
                /\ scans[k].to = RunEnd(p)

\* C5: a call whose token begins a maximal run of number characters that does
\* not match the strict number grammar returns one ILLEGAL token whose lexeme
\* is the whole run and whose position spans the run.
InvalidRunIsILLEGAL ==
    \A k \in Calls :
        LET p == FirstRune(k)
            run == SubSeq(input, p, RunEnd(p))
        IN  (BeginsRun(p) /\ ~JSONNumber(run)) =>
                /\ ~scans[k].panic
                /\ tokens[k].TokType = "ILLEGAL"
                /\ tokens[k].Lexeme = run
                /\ tokens[k].TokPos.ColStart = ColumnOf(p)
                /\ tokens[k].TokPos.ColEnd = ColumnOf(RunEnd(p))
                /\ scans[k].to = RunEnd(p)

\* call k scanned a string: its token began at a quote
BeginsString(k) == FirstRune(k) # 0 /\ input[FirstRune(k)] = QUOTE

\* C6: a call at an opening quote immediately followed by a quote returns one
\* STR token with an empty lexeme, without an out-of-range index access.
EmptyStringIsSTR ==
    \A k \in Calls :
        (BeginsString(k) /\ At(input, FirstRune(k), QUOTE)) =>
            /\ ~scans[k].panic
            /\ tokens[k].TokType = "STR"
            /\ tokens[k].Lexeme = <<>>

\* C7: a call at an opening quote whose string the input ends before an
\* unescaped closing quote returns an ILLEGAL token, whatever was collected.
UnterminatedStringIsILLEGAL ==
    \A k \in Calls :
        (BeginsString(k) /\ ClosingQuote(FirstRune(k)) = 0) =>
            /\ ~scans[k].panic
            /\ tokens[k].TokType = "ILLEGAL"

\* the quote at which the string scan of call k stopped (0: it ran to the end
\* of the input): the call consumed one rune more than it kept as content
ClosedAt(k) ==
    IF /\ tokens[k].TokType = "STR"
       /\ scans[k].to - FirstRune(k) = Len(tokens[k].Lexeme) + 1
    THEN scans[k].to
    ELSE 0

\* C8: while scanning a string, a quote closes the string iff the number of
\* backslashes immediately before it is even: the scan stops at the first such
\* quote and at no other.
QuoteClosesIffEvenBackslashes ==
    \A k \in Returns :
        BeginsString(k) => ClosedAt(k) = ClosingQuote(FirstRune(k))

\* C9: for a string literal with non-empty content closed on its line, the
\* call returns a STR token whose lexeme is the runes between the two quotes,
\* from the column after the opening quote, and consumes the closing quote.
StringIsSTR ==
    \A k \in Calls :
        LET q == FirstRune(k)
            c == ClosingQuote(q)
        IN  (/\ BeginsString(k)
             /\ c > q + 1
             /\ \A m \in q..c : input[m] # LF) =>
                /\ ~scans[k].panic
                /\ tokens[k].TokType = "STR"
                /\ tokens[k].Lexeme = SubSeq(input, q + 1, c - 1)
                /\ tokens[k].TokPos.ColStart = ColumnOf(q) + 1
                /\ tokens[k].TokPos.ColEnd = ColumnOf(q) + (c - 1 - q)
                /\ scans[k].to = c

\* the run is over: a call aborted, or EOF was returned at the end of the input
Finished ==
    \/ aborted
    \/ /\ token.TokType = "EOF"
       /\ lxr.Reader.r = Len(input)

\* C10: each of { } [ ] , : outside a string yields exactly one token, of its
\* type, whose lexeme is that rune, at the rune's column on its line.
StructuralYieldsOneToken ==
    Finished =>
        \A i \in OutsideString :
            Structural(input[i]) # "NONE" =>
                /\ Cardinality({k \in Returns : FirstRune(k) = i}) = 1
                /\ \A k \in Returns :
                       FirstRune(k) = i =>
                           /\ tokens[k].TokType = Structural(input[i])
                           /\ tokens[k].Lexeme = <<input[i]>>
                           /\ tokens[k].TokPos.ColStart = ColumnOf(i)
                           /\ tokens[k].TokPos.ColEnd = ColumnOf(i)

\* the last position of the run of letters that begins at position p
LetterRunEnd(p) == Max({e \in p..Len(input) : \A i \in p..e : input[i] \in Letter})

\* position p begins a maximal run of letters that lies outside any string
\* and touches no number character
BeginsLetterRun(p) ==
    /\ input[p] \in Letter
    /\ p = 1 \/ input[p - 1] \notin Letter \cup NumberChars
    /\ LetterRunEnd(p) = Len(input) \/ input[LetterRunEnd(p) + 1] \notin NumberChars
    /\ \A i \in p..LetterRunEnd(p) : i \in OutsideString

\* the token type the literal grammar gives a run of letters
LiteralType(s) ==
    IF s = <<"t", "r", "u", "e">> THEN "TRUE"
    ELSE IF s = <<"f", "a", "l", "s", "e">> THEN "FALSE"
    ELSE IF s = <<"n", "u", "l", "l">> THEN "NULL"
    ELSE "ILLEGAL"

\* C11: a maximal run of letters outside a string yields exactly one token,
\* whose lexeme is the whole run and whose type is TRUE, FALSE or NULL for
\* exactly true, false, null, and ILLEGAL for any other run, one that begins
\* with e or E included.
LetterRunIsOneToken ==
    Finished =>
        \A p \in 1..Len(input) :
            BeginsLetterRun(p) =>
                \E k \in Returns :
                    /\ FirstRune(k) = p
                    /\ tokens[k].Lexeme = SubSeq(input, p, LetterRunEnd(p))
                    /\ tokens[k].TokType = LiteralType(tokens[k].Lexeme)
                    /\ \A j \in Returns :
                           FirstRune(j) \in p..LetterRunEnd(p) => j = k

\* the runes call k went over before the rune that began its token
Skipped(k) == (scans[k].from + 1)..scans[k].start

\* the newlines among them
SkippedLines(k) == {i \in Skipped(k) : input[i] = LF}

\* the column the lexer stands at after them: one more per space or tab,
\* counted from 0 after the last newline
ColumnAfterSkipped(k) ==
    IF SkippedLines(k) = {} THEN scans[k].pos.Column + Cardinality(Skipped(k))
    ELSE scans[k].start - Max(SkippedLines(k))

\* the column token k gives the rune that began it (a token begun by a quote
\* starts one column after the quote)
FirstColumn(k) ==
    IF BeginsString(k) THEN tokens[k].TokPos.ColStart - 1 ELSE tokens[k].TokPos.ColStart

PositionWellFormed ==
    \A k \in Returns :
        /\ tokens[k].TokPos.Line >= 1
        /\ 1 <= tokens[k].TokPos.ColStart
        /\ tokens[k].TokPos.ColStart <= tokens[k].TokPos.ColEnd
        /\ tokens[k].TokType # "EOF" =>
               tokens[k].TokPos.ColEnd =
                   tokens[k].TokPos.ColStart + Len(tokens[k].Lexeme) - 1
        /\ tokens[k].TokType = "EOF" =>
               tokens[k].TokPos.ColStart = tokens[k].TokPos.ColEnd

\* position p is not after position q, by line and then by column
NotAfter(p, q) ==
    \/ p.Line < q.Line
    \/ p.Line = q.Line /\ p.ColStart <= q.ColStart

\* C14: of two consecutive returned tokens the later one's (Line, ColStart)
\* is not smaller than the earlier one's, the terminating EOF token relative
\* to the last token before it included.
TokensOrdered ==
    \A k \in Returns :
        k > 1 => NotAfter(tokens[k - 1].TokPos, tokens[k].TokPos)

\* the reader's last operation was the read that fails with the error other
\* than io.EOF
ReadFailed == ioErrAt = lxr.Reader.r + 1 /\ lxr.Reader.lastRuneSize = -1

\* C15: a read error other than end of input, met during a GetNextToken
\* call, is handed on as a value: the call does not panic or abort.
ReadErrorIsAValue == ~(aborted /\ ReadFailed)

\* the position of the first rune of token k's lexeme in the input (a STR
\* token's lexeme begins after the quote)
LexemeFrom(k) ==
    IF BeginsString(k) /\ tokens[k].TokType = "STR" THEN FirstRune(k) + 1
    ELSE FirstRune(k)

\* rune i of the input is in the lexeme of token k, a token other than EOF
InLexeme(k, i) ==
    /\ tokens[k].TokType # "EOF"
    /\ FirstRune(k) # 0
    /\ LexemeFrom(k) <= i
    /\ i < LexemeFrom(k) + Len(tokens[k].Lexeme)
    /\ tokens[k].Lexeme[i - LexemeFrom(k) + 1] = input[i]

\* the characters of no known class
KnownClass ==
    {SP, TAB, LF, QUOTE, "{", "}", "[", "]", ",", ":"} \cup NumberChars \cup Letter

\* C16: no input character outside a string is silently dropped: every
\* character that is not a space, tab or newline and not a string's quote is
\* in the lexeme of exactly one returned token other than EOF, and a character
\* of no known class yields an ILLEGAL token of that single character at its
\* column.
NoCharacterDropped ==
    Finished =>
        \A i \in OutsideString :
            input[i] \notin {SP, TAB, LF} =>
                /\ Cardinality({k \in Returns : InLexeme(k, i)}) = 1
                /\ input[i] \notin KnownClass =>
                       \E k \in Returns :
                           /\ FirstRune(k) = i
                           /\ tokens[k].TokType = "ILLEGAL"
                           /\ tokens[k].Lexeme = <<input[i]>>
                           /\ tokens[k].TokPos.ColStart = ColumnOf(i)

\* the call that returned the terminating EOF: the first EOF token returned
\* with the input exhausted (0 when there is none yet)
Terminating ==
    LET ends == {k \in Returns : tokens[k].TokType = "EOF" /\ scans[k].to = Len(input)}
    IN  IF ends = {} THEN 0 ELSE Min(ends)

\* C18: for a file that can be read, the result of Lex is the complete token
\* sequence: the tokens GetNextToken yields until the input is exhausted,
\* without the terminating EOF; no token that follows an earlier token of the
\* input is omitted.
LexIsComplete ==
    (lexed.called /\ lexed.opened /\ Terminating # 0) =>
        /\ ~lexed.panic
        /\ lexed.tokens = SubSeq(tokens, 1, Terminating - 1)

\* the characters that may follow a backslash (RFC 8259, section 7), and the
\* hexadecimal digits of a \u escape
Escapable == {QUOTE, BSLASH, "/", "b", "f", "n", "r", "t"}
HexDigit == Digit \cup {"a", "b", "c", "d", "e", "f", "A", "B", "C", "D", "E", "F"}

\* from position i on, every backslash of s starts an escape of the RFC
RECURSIVE EscapesFrom(_, _)
EscapesFrom(s, i) ==
    IF i > Len(s) THEN TRUE
    ELSE IF s[i] # BSLASH THEN EscapesFrom(s, i + 1)
    ELSE IF i + 1 <= Len(s) /\ s[i + 1] \in Escapable THEN EscapesFrom(s, i + 2)
    ELSE IF /\ i + 5 <= Len(s)
            /\ s[i + 1] = "u"
            /\ \A j \in (i + 2)..(i + 5) : s[j] \in HexDigit
    THEN EscapesFrom(s, i + 6)
    ELSE FALSE

\* C19: a quoted string is returned as a STR token only if every backslash in
\* its content starts one of the escapes of RFC 8259; a string with any other
\* backslash sequence is returned as ILLEGAL.
StringEscapesAreValid ==
    \A k \in Returns :
        BeginsString(k) =>
            /\ tokens[k].TokType = "STR" => EscapesFrom(tokens[k].Lexeme, 1)
            /\ ( /\ ClosingQuote(FirstRune(k)) # 0
                 /\ ~EscapesFrom(SubSeq(input, FirstRune(k) + 1,
                                         ClosingQuote(FirstRune(k)) - 1), 1) )
                   => tokens[k].TokType = "ILLEGAL"

\* token k is the token of a number run or of a letter run
RunToken(k) ==
    /\ FirstRune(k) # 0
    /\ tokens[k].TokType \in {"NUM", "TRUE", "FALSE", "NULL", "ILLEGAL"}
    /\ isNumberMaybe(input[FirstRune(k)]) \/ IsLetter(input[FirstRune(k)])

\* the position of the last rune of its run
RunLast(k) == FirstRune(k) + Len(tokens[k].Lexeme) - 1

\* the lexer's Pos after call k
PosAfter(k) == IF k = Len(scans) THEN lxr.Pos ELSE scans[k + 1].pos

\* the token after token k begins at the rune that ended the run of token k
BeginsAtTerminator(k) == k + 1 \in Returns /\ FirstRune(k + 1) = RunLast(k) + 1

\* C20, as stated: the character that ends a number run or a letter run is
\* pushed back: after the call, the reader cursor and the column both stand at
\* the last character of the run; the next call begins with the terminating
\* character and reports it at the run's ColEnd + 1 on the same line.
TerminatorReportedNextColumn ==
    \A k \in Returns :
        RunToken(k) =>
            /\ scans[k].to = RunLast(k)
            /\ PosAfter(k).Column = tokens[k].TokPos.ColEnd
            /\ k + 1 \in Calls => scans[k + 1].from = RunLast(k)
            /\ BeginsAtTerminator(k) =>
                   /\ tokens[k + 1].TokPos.Line = tokens[k].TokPos.Line
                   /\ tokens[k + 1].TokPos.ColStart = tokens[k].TokPos.ColEnd + 1

\* C20, amended: the same, but a token begun by a terminating quote is
\* reported at the run's ColEnd + 2, the column after the quote.
TerminatorPushedBack ==
    \A k \in Returns :
        RunToken(k) =>
            /\ scans[k].to = RunLast(k)
            /\ PosAfter(k).Column = tokens[k].TokPos.ColEnd
            /\ k + 1 \in Calls => scans[k + 1].from = RunLast(k)
            /\ BeginsAtTerminator(k) =>
                   /\ tokens[k + 1].TokPos.Line = tokens[k].TokPos.Line
                   /\ tokens[k + 1].TokPos.ColStart =
                          tokens[k].TokPos.ColEnd + (IF BeginsString(k + 1) THEN 2 ELSE 1)

\* a NUM token was followed by a token begun by the character that ended its
\* run
TerminatorBeganAToken ==
    \E k \in Returns :
        /\ RunToken(k)
        /\ tokens[k].TokType = "NUM"
        /\ BeginsAtTerminator(k)
        /\ tokens[k + 1].TokType \notin {"EOF", "ILLEGAL"}

\* the newlines among the runes the reader has consumed
ConsumedLines == {i \in 1..lxr.Reader.r : input[i] = LF}

\* C21: after any sequence of GetNextToken calls, Line is 1 plus the number
\* of newlines consumed so far and Column is the number of characters
\* consumed since the last consumed newline (or since the start), newlines
\* consumed while scanning a string included.
PositionCountsConsumed ==
    /\ lxr.Pos.Line = 1 + Cardinality(ConsumedLines)
    /\ lxr.Pos.Column =
           lxr.Reader.r - (IF ConsumedLines = {} THEN 0 ELSE Max(ConsumedLines))

\* call k was made with the input exhausted
AtEnd(k) == scans[k].from = Len(input)

\* C22: once the input is exhausted, every further GetNextToken call returns
\* an EOF token with lexeme "EOF" and the position of the previous EOF, and
\* leaves the lexer's Line and Column unchanged.
EOFRepeats ==
    \A k \in Calls :
        AtEnd(k) =>
            /\ ~scans[k].panic
            /\ tokens[k].TokType = "EOF"
            /\ tokens[k].Lexeme = <<"E", "O", "F">>
            /\ (k > 1 /\ tokens[k - 1].TokType = "EOF") =>
                   tokens[k].TokPos = tokens[k - 1].TokPos
            /\ PosAfter(k) = scans[k].pos

\* two calls were made with the input exhausted, after a token of the text
EOFReturnedTwice ==
    \E k \in Returns :
        k > 2 /\ AtEnd(k) /\ AtEnd(k - 1) /\ tokens[k - 2].TokType # "EOF"

\* C23: every GetNextToken call on a finite input terminates, and a call that
\* returns a token while input remains consumes at least one character net of
\* push-backs; hence repeated calls exhaust the input (as many returned calls
\* as the input has characters suffice) and the loop of Lex terminates (after
\* at most one token per character).
CallsConsumeInput ==
    /\ \A k \in Returns :
           scans[k].from < Len(input) => scans[k].to > scans[k].from
    /\ Len(tokens) >= Len(input) => lxr.Reader.r = Len(input)
    /\ (lexed.called /\ lexed.opened /\ ~lexed.panic) =>
           Len(lexed.tokens) <= Len(input)

\* the calls have exhausted an input of several tokens, one of them of more
\* than one character, and Lex has returned its tokens
InputExhaustedAndLexed ==
    /\ lexed.called /\ lexed.opened /\ ~lexed.panic
    /\ Len(lexed.tokens) >= 2
    /\ lxr.Reader.r = Len(input)
    /\ token.TokType = "EOF"
    /\ \E k \in Returns : scans[k].to >= scans[k].from + 2

\* C24: peekForward(n), for every n >= 1 and whatever remains of the input,
\* leaves the reader cursor and the lexer's Line and Column as they were
\* before the call, whether it returns a rune or an error; the rune it
\* returns is the n-th character ahead of the cursor.
PeekLeavesCursor ==
    peeked.steps # 0 =>
        /\ peeked.after.Reader.r = peeked.before.Reader.r
        /\ peeked.after.Pos = peeked.before.Pos
        /\ peeked.err = "nil" =>
               /\ peeked.before.Reader.r + peeked.steps <= Len(input)
               /\ peeked.r = input[peeked.before.Reader.r + peeked.steps]

\* C25: backupReader never changes Line and never makes Column negative;
\* whenever it is invoked during GetNextToken, Column is greater than 0 and
\* the reader operation before it was a successful rune read, so that it
\* un-reads exactly one character and takes exactly one from Column.
BackupStepsBackOne ==
    \A i \in 1..Len(lxr.Backups) :
        LET b == lxr.Backups[i]
        IN  /\ b.after.Pos.Line = b.before.Pos.Line
            /\ b.after.Pos.Column >= 0
            /\ b.before.Pos.Column > 0
            /\ b.before.Reader.lastRuneSize = 1
            /\ ~b.panic
            /\ b.after.Reader.r = b.before.Reader.r - 1
            /\ b.after.Pos.Column = b.before.Pos.Column - 1

\* a call has pushed back both the first rune of a run and the rune that
\* ended it, on a line after the first
RunPushedBackTwice ==
    /\ ~aborted
    /\ Len(lxr.Backups) >= 2
    /\ lxr.Pos.Line > 1
    /\ token.TokType \in {"NUM", "ILLEGAL"}
    /\ lxr.Reader.r < Len(input)


====
